---- MODULE Spec2Model ----
(***************************************************************************)
(* Model of flaczkownia-dedup: the job queue and its worker loop           *)
(* (src/dedup.py main), the per-file classification of process_path        *)
(* (src/dedup.py), the record store's tables and indexes                   *)
(* (src/lib/sqlmodels.py) and the symlink view of the connector            *)
(* (src/connector.py).                                                     *)
(*                                                                         *)
(* Every store statement (a query, an UPDATE, an INSERT with its commit)   *)
(* is one atomic step; workers interleave between statements.              *)
(***************************************************************************)
EXTENDS Integers, Sequences, FiniteSets, Bags, TLC

(***************************************************************************)
(* Bounds of the model.                                                    *)
(***************************************************************************)
NWorkers == 2
MaxJobs == 2
MaxChanges == 1
\* batch_size of _cleanup_stale_symlinks, scaled down from 1000
BatchSize == 2
\* the longest list of --webhook-url
MaxUrls == 2

Workers == 1..NWorkers

(***************************************************************************)
(* Paths are strings, modelled as sequences of one-character strings.      *)
(***************************************************************************)
DirA == <<"/", "a">>
FileB == <<"/", "a", "/", "b">>
FileC == <<"/", "a", "/", "c">>

Files == {FileB, FileC}
JobPaths == {DirA, FileC}

\* _recursive_path_walk: a directory yields os.path.join(root, file) for each of
\* its files, any other existing path yields itself.
Walk(path) ==
  IF path = DirA THEN <<FileB, FileC>> ELSE <<path>>

(***************************************************************************)
(* pathlib on these strings (src/connector.py 45-58, 110-112).             *)
(***************************************************************************)
\* The first index of s at or after i that holds a "/", or Len(s) + 1.
RECURSIVE SlashFrom(_, _)
SlashFrom(s, i) ==
  IF i > Len(s) \/ s[i] = "/" THEN i ELSE SlashFrom(s, i + 1)

\* Path(s).parts without the root: the components between the slashes, empty
\* components dropped.
RECURSIVE Parts(_)
Parts(s) ==
  IF s = <<>> THEN <<>>
  ELSE IF Head(s) = "/" THEN Parts(Tail(s))
  ELSE LET n == SlashFrom(s, 1) IN
         <<SubSeq(s, 1, n - 1)>> \o Parts(SubSeq(s, n, Len(s)))

\* str() of a relative path: its components joined by "/".
RECURSIVE Join(_)
Join(parts) ==
  IF parts = <<>> THEN <<>>
  ELSE IF Len(parts) = 1 THEN Head(parts)
  ELSE Head(parts) \o <<"/">> \o Join(Tail(parts))

\* str(Path(prefix) / rel) for an absolute prefix.
JoinUnder(prefix, rel) == <<"/">> \o Join(Parts(prefix) \o rel)

\* db_path.startswith(db_prefix): a prefix of the string.
StartsWith(s, prefix) ==
  Len(s) >= Len(prefix) /\ SubSeq(s, 1, Len(prefix)) = prefix

\* Path(path).relative_to(base) raises ValueError unless the components of
\* base begin those of path.
IsRelativeTo(path, base) ==
  LET pp == Parts(path)
      bp == Parts(base)
  IN Len(pp) >= Len(bp) /\ SubSeq(pp, 1, Len(bp)) = bp

RelativeTo(path, base) ==
  SubSeq(Parts(path), Len(Parts(base)) + 1, Len(Parts(path)))

\* Mutant: the depth of the link is ignored.
UpPrefixNone(depth) == <<>>

\* "../" * depth
RECURSIVE UpPrefix(_)
UpPrefix(depth) ==
  IF depth = 0 THEN <<>> ELSE <<".", ".", "/">> \o UpPrefix(depth - 1)

(***************************************************************************)
(* JobStatus                                                               *)
(***************************************************************************)
PENDING == "PENDING"
PROCESSING == "PROCESSING"
DONE == "DONE"
FAILED == "FAILED"

NULL == "NULL"

(***************************************************************************)
(* What the classifiers find in a file.  kind is                           *)
(*   "nonaudio"   puremagic finds no audio/ mime type (or raises PureError)*)
(*   "filetype"   puremagic says audio, MediaFile raises FileTypeError     *)
(*   "unreadable" puremagic says audio, MediaFile raises another error     *)
(*   "corrupt"    tags are read, _audioprint_resampled raises              *)
(*   "audio"      tags and fingerprint are read                            *)
(* Tags that the file does not carry are None (NULL).                      *)
(***************************************************************************)
Tags(fp, album, mbid, disc, track) ==
  [acoustic_fingerprint |-> fp, album |-> album, mb_albumid |-> mbid,
   disc_number |-> disc, track_number |-> track]

TagsFull == Tags(7, "X", "M", "1", "1")
TagsNoMbid == Tags(7, "X", NULL, "1", "1")
NoTags == Tags(0, NULL, NULL, NULL, NULL)

Contents ==
  { [kind |-> k, tags |-> NoTags] : k \in {"nonaudio", "filetype", "unreadable", "corrupt"} }
  \cup { [kind |-> "audio", tags |-> t] : t \in {TagsFull, TagsNoMbid} }

NoContent == [kind |-> "none", tags |-> NoTags]

VARIABLES
  jobs,      \* table queue: jobs[id] = [path, status, created_at, updated_at]
  clock,     \* the store's func.now()
  tracks,    \* table tracks: a bag of rows (the surrogate id left out)
  unknown,   \* table unknown_files: a bag of paths
  content,   \* the file tree: what each file holds now
  changes,   \* number of changes made to the file tree
  pc,        \* where each worker is in main's loop / process_path
  job,       \* main's local `job`: the id of the job last selected (0: none yet)
  todo,      \* files the walk of process_path has still to yield (head: current)
  cur,       \* what the worker read from the current file (mf, fp)
  existing,  \* result of the worker's lookup of the same track
  won,       \* history: won[id] = number of conditional updates of job id that returned 1
  err,       \* what raised out of process_path: "tags" (MediaFile),
             \* "fingerprint" (_audioprint_resampled), "path", "identity"
             \* (IntegrityError of that index), or "none"
  seen,      \* history: paths a bulk run began on, the tree under them unchanged since
  rerun,     \* history: the worker's bulk run is a second run over an unchanged tree
  acts,      \* history: records inserted and events sent by second runs
  view,      \* the tree under view_dir: what is at each location
  vpc,       \* where the connector is in its startup reconcile
  vwalk,     \* leaf files os.walk has listed and not yet yielded
  batch,     \* batch_files of _cleanup_stale_symlinks
  vtodo,     \* rows the running query of _ensure_valid_symlinks has still to yield
  unlink_failed,  \* history: leaves whose os.unlink raised OSError
  restarted, \* history: the connector has been started a second time
  idx_path_unique,  \* the queue table was created with a unique index on path
  refused,   \* history: paths of the enqueue requests that created no job
  webhook_urls,  \* args.webhook_url of dedup.py: the list of --webhook-url
  attempts   \* history: the urls the last _send_webhook call posted to, in order

vars == <<jobs, clock, tracks, unknown, content, changes, pc, job, todo, cur,
          existing, won, err, seen, rerun, acts, view, vpc, vwalk, batch, vtodo,
          unlink_failed, restarted, idx_path_unique, refused, webhook_urls, attempts>>

viewVars == <<view, vpc, vwalk, batch, vtodo, unlink_failed, restarted>>

schemaVars == <<idx_path_unique, refused>>

hookVars == <<webhook_urls, attempts>>

engineVars == <<jobs, clock, tracks, unknown, content, changes, pc, job, todo,
                cur, existing, won, err, seen, rerun, acts, idx_path_unique,
                refused, webhook_urls, attempts>>

storeVars == <<tracks, unknown>>
queueVars == <<jobs, clock, won>>
treeVars == <<content, changes>>

JobIds == 1..Len(jobs)

(***************************************************************************)
(* The record store (src/lib/sqlmodels.py).                                *)
(***************************************************************************)
\* session.query(Track).filter_by(path=file).first() or
\* session.query(UnknownFile).filter_by(path=file).first()
AlreadyIndexed(file) ==
  \/ \E t \in BagToSet(tracks) : t.path = file
  \/ \E u \in BagToSet(unknown) : u = file

\* One criterion of filter_by: `column = value`, rendered `column IS NULL` when
\* the value is None.  A NULL column never equals a value.
FilterEq(column, value) ==
  IF value = NULL THEN column = NULL ELSE column # NULL /\ column = value

\* The filter of the same-track lookup; it has no criterion on duplicate.
\* (acoustic_fingerprint and path are nullable=False: never None.)
SameTrack(t, tags) ==
  /\ t.acoustic_fingerprint = tags.acoustic_fingerprint
  /\ FilterEq(t.album, tags.album)
  /\ FilterEq(t.mb_albumid, tags.mb_albumid)
  /\ FilterEq(t.disc_number, tags.disc_number)
  /\ FilterEq(t.track_number, tags.track_number)

\* Two rows collide in a unique index when all indexed columns are equal and
\* none is NULL (both SQLite and PostgreSQL hold NULLs distinct).
IndexEq(a, b) == a # NULL /\ b # NULL /\ a = b

\* Unique(path) and idx_unknown_file_path
UnknownPathTaken(file) == \E u \in BagToSet(unknown) : u = file

\* Unique(path) and idx_track_path
TrackPathTaken(file) == \E t \in BagToSet(tracks) : t.path = file

\* idx_track_duplicate: unique on the five columns, among rows with duplicate = false
IdentityTaken(row) ==
  /\ row.duplicate = FALSE
  /\ \E t \in BagToSet(tracks) :
       /\ t.duplicate = FALSE
       /\ t.acoustic_fingerprint = row.acoustic_fingerprint
       /\ IndexEq(t.album, row.album)
       /\ IndexEq(t.mb_albumid, row.mb_albumid)
       /\ IndexEq(t.disc_number, row.disc_number)
       /\ IndexEq(t.track_number, row.track_number)

\* Track(path=file, ..., duplicate=existing is not None)
TrackRow(file, tags, dup) ==
  [path |-> file, acoustic_fingerprint |-> tags.acoustic_fingerprint,
   album |-> tags.album, mb_albumid |-> tags.mb_albumid,
   disc_number |-> tags.disc_number, track_number |-> tags.track_number,
   duplicate |-> dup]

(***************************************************************************)
(* The queue.                                                              *)
(***************************************************************************)
\* Mutant: the select also returns jobs that are being processed.
PendingOrProcessing == { j \in JobIds : jobs[j].status \in {PENDING, PROCESSING} }

Pending == { j \in JobIds : jobs[j].status = PENDING }

\* Mutant: the select without its order_by.
AnyPending == Pending

\* filter_by(status=PENDING).order_by(Queue.created_at).first(): a pending job
\* that no pending job precedes; the store picks among equal created_at.
OldestPending ==
  { j \in Pending : \A k \in Pending : jobs[k].created_at >= jobs[j].created_at }

\* Mutant: the UPDATE without its status criterion.
ClaimRowsAnyStatus(id) == { j \in JobIds : j = id }

\* The rows the conditional UPDATE matches: Queue.id == job.id and
\* Queue.status == PENDING.
ClaimRows(id) == { j \in JobIds : j = id /\ jobs[j].status = PENDING }

\* Mutant: the status write reaches every row of the queue.
SetStatusEveryJob(id, status) == [j \in JobIds |-> [jobs[j] EXCEPT !.status = status]]

\* job.status = status; session.commit(): the row of this job is written.
SetStatus(id, status) == [jobs EXCEPT ![id].status = status]

\* Index("idx_path", "path", unique=True) of src/server.py, where the table
\* has it: a job of any status holds its path.
QueuePathTaken(path) ==
  idx_path_unique /\ \E j \in JobIds : jobs[j].path = path

(***************************************************************************)
(* Init                                                                    *)
(***************************************************************************)
InitWorkers ==
  /\ job = [w \in Workers |-> 0]
  /\ todo = [w \in Workers |-> <<>>]
  /\ cur = [w \in Workers |-> NoContent]
  /\ existing = [w \in Workers |-> FALSE]
  /\ err = [w \in Workers |-> "none"]
  /\ rerun = [w \in Workers |-> FALSE]
  /\ acts = 0
  /\ seen = {}

\* create_all of dedup.py or connector.py made the tables: the index on
\* queue.path is idx_queue_path, not unique.
InitSchema ==
  /\ idx_path_unique = FALSE
  /\ refused = {}

\* One --webhook-url, the connector's endpoint; nothing sent yet.
InitOneHook ==
  /\ webhook_urls = <<"connector">>
  /\ attempts = <<>>

\* dedup.py runs without --webhook-url (args.webhook_url is None).
InitNoHook ==
  /\ webhook_urls = <<>>
  /\ attempts = <<>>

InitStore ==
  /\ InitSchema
  /\ jobs = <<>>
  /\ won = <<>>
  /\ clock = 1
  /\ tracks = EmptyBag
  /\ unknown = EmptyBag

\* The connector runs without --view-dir: no view is kept.
InitNoView ==
  /\ view = << >>
  /\ vpc = "off"
  /\ vwalk = {}
  /\ batch = <<>>
  /\ vtodo = {}
  /\ unlink_failed = {}
  /\ restarted = FALSE

Init ==
  /\ InitStore
  /\ InitWorkers
  /\ InitNoView
  /\ InitNoHook
  /\ pc = [w \in Workers |-> "poll"]
  /\ content = [f \in Files |-> NoContent]
  /\ changes = 0

(***************************************************************************)
(* The environment.                                                        *)
(***************************************************************************)
\* tgmount_add_to_dedup_queue: Queue(path=...), session.add, session.commit.
\* status defaults to PENDING, created_at and updated_at to func.now().
\* func.now() is read in the INSERT, and the store serialises its writers
\* (SQLite, the default --db): created_at never decreases from one committed
\* job to the next; two jobs of the same second carry the same created_at.
\* When the table carries the unique idx_path of src/server.py (49-60), the
\* commit of a path that a job already has raises IntegrityError: the request
\* fails and no job is created.
Enqueue(path) ==
  /\ Len(jobs) < MaxJobs
  /\ IF QueuePathTaken(path)
       THEN /\ refused' = refused \cup {path}
            /\ UNCHANGED <<jobs, clock, won>>
       ELSE /\ \E now \in {clock, clock + 1} :
                 /\ clock' = now
                 /\ jobs' = Append(jobs, [path |-> path, status |-> PENDING,
                                          created_at |-> now, updated_at |-> now])
            /\ won' = Append(won, 0)
            /\ UNCHANGED refused
  /\ UNCHANGED <<storeVars, treeVars, pc, job, todo, cur, existing, err,
                 seen, rerun, acts, idx_path_unique, hookVars>>
  /\ UNCHANGED viewVars

\* The file tree is written by others (tgmount): a file's content changes.
FileChange(file) ==
  /\ changes < MaxChanges
  /\ changes' = changes + 1
  /\ \E c \in Contents \ {content[file]} : content' = [content EXCEPT ![file] = c]
  /\ seen' = { p \in seen : \A i \in 1..Len(Walk(p)) : Walk(p)[i] # file }
  /\ rerun' = [w \in Workers |->
                 rerun[w] /\ \A i \in 1..Len(todo[w]) : todo[w][i] # file]
  /\ UNCHANGED <<storeVars, queueVars, pc, job, todo, cur, existing, err, acts>>
  /\ UNCHANGED viewVars
  /\ UNCHANGED <<schemaVars, hookVars>>

(***************************************************************************)
(* main's queue loop (src/dedup.py 153-191), one worker process each.      *)
(***************************************************************************)
\* Lines 155-162: select the oldest pending job; sleep and retry when none.
SelectJob(w) ==
  /\ pc[w] = "poll"
  /\ IF Pending = {}
       THEN UNCHANGED <<pc, job>>
       ELSE \E j \in OldestPending :
              /\ job' = [job EXCEPT ![w] = j]
              /\ pc' = [pc EXCEPT ![w] = "selected"]
  /\ UNCHANGED <<storeVars, queueVars, treeVars, todo, cur, existing, err,
                 seen, rerun, acts>>
  /\ UNCHANGED viewVars
  /\ UNCHANGED <<schemaVars, hookVars>>

\* Lines 165-180: the conditional update and its commit; on updated_count == 0
\* back to polling, else refresh the job and enter process_path(job.path).
ClaimJob(w) ==
  /\ pc[w] = "selected"
  /\ LET rows == ClaimRows(job[w]) IN
       /\ jobs' = [j \in JobIds |->
                     IF j \in rows THEN [jobs[j] EXCEPT !.status = PROCESSING]
                                   ELSE jobs[j]]
       /\ IF rows = {}
            THEN /\ pc' = [pc EXCEPT ![w] = "poll"]
                 /\ UNCHANGED <<won, todo, err>>
            ELSE /\ pc' = [pc EXCEPT ![w] = "check"]
                 /\ won' = [won EXCEPT ![job[w]] = @ + 1]
                 /\ todo' = [todo EXCEPT ![w] = Walk(jobs[job[w]].path)]
                 /\ err' = [err EXCEPT ![w] = "none"]
  /\ UNCHANGED <<storeVars, clock, treeVars, job, cur, existing, seen, rerun, acts>>
  /\ UNCHANGED viewVars
  /\ UNCHANGED <<schemaVars, hookVars>>

\* Lines 187-189: process_path returned; job.status = DONE, commit.
CompleteJob(w) ==
  /\ pc[w] = "return"
  /\ job[w] # 0
  /\ jobs' = SetStatus(job[w], DONE)
  /\ pc' = [pc EXCEPT ![w] = "poll"]
  /\ UNCHANGED <<storeVars, clock, won, treeVars, job, todo, cur, existing, err,
                 seen, rerun, acts>>
  /\ UNCHANGED viewVars
  /\ UNCHANGED <<schemaVars, hookVars>>

\* Mutant: the handler of a raising process_path falls through to line 187.
FailJobMarksDone(w) ==
  /\ pc[w] = "raised"
  /\ job[w] # 0
  /\ jobs' = SetStatus(job[w], DONE)
  /\ pc' = [pc EXCEPT ![w] = "poll"]
  /\ todo' = [todo EXCEPT ![w] = <<>>]
  /\ cur' = [cur EXCEPT ![w] = NoContent]
  /\ existing' = [existing EXCEPT ![w] = FALSE]
  /\ err' = [err EXCEPT ![w] = "none"]
  /\ UNCHANGED <<storeVars, clock, won, treeVars, job, seen, rerun, acts>>
  /\ UNCHANGED viewVars
  /\ UNCHANGED <<schemaVars, hookVars>>

\* Lines 181-185: process_path raised; job.status = FAILED, commit, continue.
\* When the exception came out of a failed commit, the session has not been
\* rolled back and this commit may raise in turn: that exception leaves the
\* loop (only KeyboardInterrupt is caught there) and the process ends.
FailJob(w) ==
  /\ pc[w] = "raised"
  /\ job[w] # 0
  /\ \E committed \in IF err[w] \in {"path", "identity"} THEN BOOLEAN ELSE {TRUE} :
       IF committed
         THEN /\ jobs' = SetStatus(job[w], FAILED)
              /\ pc' = [pc EXCEPT ![w] = "poll"]
         ELSE /\ pc' = [pc EXCEPT ![w] = "crashed"]
              /\ UNCHANGED jobs
  /\ todo' = [todo EXCEPT ![w] = <<>>]
  /\ cur' = [cur EXCEPT ![w] = NoContent]
  /\ existing' = [existing EXCEPT ![w] = FALSE]
  /\ err' = [err EXCEPT ![w] = "none"]
  /\ UNCHANGED <<storeVars, clock, won, treeVars, job, seen, rerun, acts>>
  /\ UNCHANGED viewVars
  /\ UNCHANGED <<schemaVars, hookVars>>

\* Lines 190-191: KeyboardInterrupt leaves the loop; a crash of the process
\* does the same.  A worker that stops before it has claimed a job is a worker
\* that takes no more steps, which every behaviour already allows.
Stop(w) ==
  /\ pc[w] \notin {"stopped", "crashed", "poll", "selected"}
  /\ pc' = [pc EXCEPT ![w] = "stopped"]
  /\ todo' = [todo EXCEPT ![w] = <<>>]
  /\ cur' = [cur EXCEPT ![w] = NoContent]
  /\ existing' = [existing EXCEPT ![w] = FALSE]
  /\ err' = [err EXCEPT ![w] = "none"]
  /\ UNCHANGED <<storeVars, queueVars, treeVars, job, seen, rerun, acts>>
  /\ UNCHANGED viewVars
  /\ UNCHANGED <<schemaVars, hookVars>>

(***************************************************************************)
(* process_path (src/dedup.py 54-130), one step per file read or store     *)
(* statement.                                                              *)
(***************************************************************************)
\* The for loop takes the next file of the walk, or process_path returns.
NextFile(w) ==
  /\ todo' = [todo EXCEPT ![w] = Tail(todo[w])]
  /\ pc' = [pc EXCEPT ![w] = IF Len(todo[w]) > 1 THEN "check" ELSE "return"]
  /\ cur' = [cur EXCEPT ![w] = NoContent]
  /\ existing' = [existing EXCEPT ![w] = FALSE]

\* An exception leaves process_path.
Raise(w, what) ==
  /\ pc' = [pc EXCEPT ![w] = "raised"]
  /\ err' = [err EXCEPT ![w] = what]

\* Mutant: a file whose fingerprint cannot be taken is recorded as unknown.
ClassifyCorruptAsUnknown(w, c) ==
  IF c.kind = "unreadable"
    THEN /\ Raise(w, "tags")
         /\ UNCHANGED cur
    ELSE /\ cur' = [cur EXCEPT ![w] = c]
         /\ pc' = [pc EXCEPT ![w] = IF c.kind = "audio" THEN "lookup" ELSE "insert"]
         /\ UNCHANGED err

\* Lines 65-69, 77-79, 87: puremagic, MediaFile and the fingerprint read the
\* file and find c.  ValueError, PureError and FileTypeError are caught (the
\* file is unknown); any other exception leaves process_path.
Classify(w, c) ==
  IF c.kind \in {"unreadable", "corrupt"}
    THEN /\ Raise(w, IF c.kind = "unreadable" THEN "tags" ELSE "fingerprint")
         /\ UNCHANGED cur
    ELSE /\ cur' = [cur EXCEPT ![w] = c]
         /\ pc' = [pc EXCEPT ![w] = IF c.kind = "audio" THEN "lookup" ELSE "insert"]
         /\ UNCHANGED err

\* Lines 60-87: skip the file when it is already indexed, else read it (c is
\* what the reads find).  The reads touch no store state, so they are taken
\* in the step of the query that precedes them.
CheckFile(w, c) ==
  /\ pc[w] = "check"
  /\ c \in Contents
  /\ IF AlreadyIndexed(Head(todo[w]))
       THEN NextFile(w) /\ UNCHANGED err
       ELSE Classify(w, c) /\ UNCHANGED <<todo, existing>>
  /\ UNCHANGED <<storeVars, queueVars, treeVars, job, seen, rerun, acts>>
  /\ UNCHANGED viewVars
  /\ UNCHANGED <<schemaVars, hookVars>>

\* Mutant: the lookup matches on the fingerprint alone.
LookupFingerprintOnly(w) ==
  /\ pc[w] = "lookup"
  /\ existing' = [existing EXCEPT ![w] =
                    \E t \in BagToSet(tracks) :
                      t.acoustic_fingerprint = cur[w].tags.acoustic_fingerprint]
  /\ pc' = [pc EXCEPT ![w] = "insert"]
  /\ UNCHANGED <<storeVars, queueVars, treeVars, job, todo, cur, err,
                 seen, rerun, acts>>
  /\ UNCHANGED viewVars
  /\ UNCHANGED <<schemaVars, hookVars>>

\* Lines 89-96: check if the same track already exists.
Lookup(w) ==
  /\ pc[w] = "lookup"
  /\ existing' = [existing EXCEPT ![w] =
                    \E t \in BagToSet(tracks) : SameTrack(t, cur[w].tags)]
  /\ pc' = [pc EXCEPT ![w] = "insert"]
  /\ UNCHANGED <<storeVars, queueVars, treeVars, job, todo, cur, err,
                 seen, rerun, acts>>
  /\ UNCHANGED viewVars
  /\ UNCHANGED <<schemaVars, hookVars>>

\* Mutant: the unknown file is reported but its row is never added.
InsertUnknownNoAdd(w) ==
  /\ acts' = IF rerun[w] THEN acts + 1 ELSE acts
  /\ pc' = [pc EXCEPT ![w] = "notify"]
  /\ UNCHANGED <<unknown, err>>

\* Lines 70-72 and 80-82: UnknownFile(path=file), add, commit.
InsertUnknown(w) ==
  LET file == Head(todo[w]) IN
    IF UnknownPathTaken(file)
      THEN /\ Raise(w, "path")
           /\ UNCHANGED <<unknown, acts>>
      ELSE /\ unknown' = unknown (+) SetToBag({file})
           /\ acts' = IF rerun[w] THEN acts + 1 ELSE acts
           /\ pc' = [pc EXCEPT ![w] = "notify"]
           /\ UNCHANGED err

\* Mutant: the track is reported before its row is committed.
InsertTrackNoCommit(w) ==
  /\ acts' = IF rerun[w] THEN acts + 1 ELSE acts
  /\ pc' = [pc EXCEPT ![w] = "notify"]
  /\ UNCHANGED <<tracks, err>>

\* Lines 98-109: Track(...), add, commit.
InsertTrack(w) ==
  LET row == TrackRow(Head(todo[w]), cur[w].tags, existing[w]) IN
    IF TrackPathTaken(row.path) \/ IdentityTaken(row)
      THEN /\ Raise(w, IF TrackPathTaken(row.path) THEN "path" ELSE "identity")
           /\ UNCHANGED <<tracks, acts>>
      ELSE /\ tracks' = tracks (+) SetToBag({row})
           /\ acts' = IF rerun[w] THEN acts + 1 ELSE acts
           /\ pc' = [pc EXCEPT ![w] = "notify"]
           /\ UNCHANGED err

Insert(w) ==
  /\ pc[w] = "insert"
  /\ IF cur[w].kind = "audio"
       THEN InsertTrack(w) /\ UNCHANGED unknown
       ELSE InsertUnknown(w) /\ UNCHANGED tracks
  /\ UNCHANGED <<queueVars, treeVars, job, todo, cur, existing, seen, rerun>>
  /\ UNCHANGED viewVars
  /\ UNCHANGED <<schemaVars, hookVars>>

(***************************************************************************)
(* main with --directory (src/dedup.py 149-151): one process_path, no      *)
(* queue; an exception ends the process.                                   *)
(***************************************************************************)
BulkStart(w, path) ==
  /\ pc[w] = "idle"
  /\ pc' = [pc EXCEPT ![w] = "check"]
  /\ todo' = [todo EXCEPT ![w] = Walk(path)]
  /\ err' = [err EXCEPT ![w] = "none"]
  /\ rerun' = [rerun EXCEPT ![w] = path \in seen]
  /\ seen' = seen \cup {path}
  /\ UNCHANGED <<storeVars, queueVars, treeVars, job, cur, existing, acts>>
  /\ UNCHANGED viewVars
  /\ UNCHANGED <<schemaVars, hookVars>>

BulkEnd(w) ==
  /\ pc[w] \in {"return", "raised"}
  /\ job[w] = 0
  /\ pc' = [pc EXCEPT ![w] = "idle"]
  /\ todo' = [todo EXCEPT ![w] = <<>>]
  /\ rerun' = [rerun EXCEPT ![w] = FALSE]
  /\ UNCHANGED <<storeVars, queueVars, treeVars, job, cur, existing, err,
                 seen, acts>>
  /\ UNCHANGED viewVars
  /\ UNCHANGED <<schemaVars, hookVars>>

(***************************************************************************)
(* The connector's view (src/connector.py).  It runs with                  *)
(* --db-prefix /a --source-relative-path s; a location is a path relative  *)
(* to --view-dir, as its sequence of components.                           *)
(***************************************************************************)
db_prefix == DirA
source_relative_path == <<"s">>

\* Store paths at depth 0 and 1 under the prefix, one that begins with the
\* prefix as a string only, and one outside of it.
FileDB == <<"/", "a", "/", "d", "/", "b">>
FileAB == <<"/", "a", "b">>
FileOut == <<"/", "b">>
ViewPaths == {FileB, FileC, FileDB, FileAB, FileOut}

LocB == <<<<"b">>>>
LocC == <<<<"c">>>>
LocD == <<<<"d">>>>
LocDB == <<<<"d">>, <<"b">>>>
Locs == {LocB, LocC, LocD, LocDB}

\* What is at a location.  todir: the link resolves to a directory (what it
\* resolves to lies outside the view).
Absent == [kind |-> "none", target |-> <<>>, todir |-> FALSE]
RegularFile == [kind |-> "file", target |-> <<>>, todir |-> FALSE]
Directory == [kind |-> "dir", target |-> <<>>, todir |-> FALSE]
Link(target, todir) == [kind |-> "link", target |-> target, todir |-> todir]

\* The connector serves with --view-dir, the startup reconcile of an empty
\* view directory behind it.
InitServing ==
  /\ view = [loc \in Locs |-> Absent]
  /\ vpc = "done"
  /\ vwalk = {}
  /\ batch = <<>>
  /\ vtodo = {}
  /\ unlink_failed = {}
  /\ restarted = FALSE

\* The locations above loc: link_path.parent and its parents below view_dir.
Parents(loc) == { SubSeq(loc, 1, n) : n \in 1..(Len(loc) - 1) }

\* Lines 56-58: the target of the link of a store path under the prefix.
LinkTarget(db_path) ==
  LET rel_path == RelativeTo(db_path, db_prefix)
      depth == IF rel_path = <<>> THEN 0 ELSE Len(rel_path) - 1
  IN UpPrefix(depth) \o source_relative_path \o <<"/">> \o Join(rel_path)

\* Track.duplicate == False rows and UnknownFile rows: the paths of the view.
TrackPaths == { t.path : t \in { r \in BagToSet(tracks) : ~r.duplicate } }
UnknownPaths == BagToSet(unknown)

\* Mutant: an existing path that is not a symlink is skipped only when it
\* is a directory; a regular file is replaced by the link.
CreateSymlinkOverFile(v, db_path) ==
  IF ~StartsWith(db_path, db_prefix) THEN v
  ELSE IF ~IsRelativeTo(db_path, db_prefix) THEN v
  ELSE LET link_path == RelativeTo(db_path, db_prefix)
           target == UpPrefix(Len(link_path) - 1) \o source_relative_path
                       \o <<"/">> \o Join(link_path)
       IN IF link_path \notin Locs THEN v
          ELSE IF \E q \in Parents(link_path) : v[q].kind \notin {"none", "dir"} THEN v
          ELSE IF v[link_path].kind = "link" /\ v[link_path].target = target THEN v
          ELSE IF v[link_path].kind = "dir" THEN v
          ELSE [loc \in Locs |->
                  IF loc = link_path THEN Link(target, FALSE)
                  ELSE IF loc \in Parents(link_path) THEN Directory
                  ELSE v[loc]]

\* Lines 43-76: _create_symlink, as the value of the tree after the call.
\* Every exception is caught at line 75.  When a parent of the location is a
\* file or a link to one, is_symlink() and exists() are False and mkdir
\* raises; when it is a link to a directory, all is done in that directory
\* and the tree under view_dir stays as it is.
CreateSymlink(v, db_path) ==
  IF ~StartsWith(db_path, db_prefix) THEN v
  ELSE IF ~IsRelativeTo(db_path, db_prefix) THEN v
  ELSE LET link_path == RelativeTo(db_path, db_prefix)
           target == LinkTarget(db_path)
       IN IF link_path \notin Locs THEN v
          ELSE IF \E q \in Parents(link_path) : v[q].kind \notin {"none", "dir"} THEN v
          ELSE IF v[link_path].kind = "link" /\ v[link_path].target = target THEN v
          ELSE IF v[link_path].kind \in {"file", "dir"} THEN v
          ELSE [loc \in Locs |->
                  IF loc = link_path THEN Link(target, FALSE)
                  ELSE IF loc \in Parents(link_path) THEN Directory
                  ELSE v[loc]]

\* The `files` of os.walk(view_dir): what is not a directory and not a link
\* to one.
WalkFiles(v) ==
  { loc \in Locs : v[loc].kind = "file" \/ (v[loc].kind = "link" /\ ~v[loc].todir) }

\* Lines 84-87: the db paths of the batch that the two queries return.
ValidDbPaths(db_paths) == db_paths \cap (TrackPaths \cup UnknownPaths)

\* Mutant: the batch is queried and nothing is unlinked.
ProcessCleanupBatchKeepAll(v, batch_files) == v

\* Lines 79-95: _process_cleanup_batch, as the value of the tree after it.
ProcessCleanupBatch(v, batch_files) ==
  LET db_paths == { JoinUnder(db_prefix, batch_files[i]) : i \in 1..Len(batch_files) }
      valid_db_paths == ValidDbPaths(db_paths)
  IN [loc \in Locs |->
        IF /\ \E i \in 1..Len(batch_files) : batch_files[i] = loc
           /\ JoinUnder(db_prefix, loc) \notin valid_db_paths
          THEN Absent ELSE v[loc]]

\* The leaves of the batch that line 90 finds stale.
StaleIn(batch_files) ==
  { batch_files[i] : i \in { k \in 1..Len(batch_files) :
      JoinUnder(db_prefix, batch_files[k])
        \notin ValidDbPaths({ JoinUnder(db_prefix, batch_files[j]) :
                                j \in 1..Len(batch_files) }) } }

\* Mutant: the first os.unlink that raises ends the loop over the batch.
ProcessCleanupBatchAborting(v, batch_files, fails) ==
  LET first == CHOOSE i \in 1..Len(batch_files) :
                 /\ batch_files[i] \in fails
                 /\ \A k \in 1..(i - 1) : batch_files[k] \notin fails
  IN [loc \in Locs |->
        IF /\ loc \in StaleIn(batch_files)
           /\ \E i \in 1..(first - 1) : batch_files[i] = loc
          THEN Absent ELSE v[loc]]

\* Lines 89-95 when os.unlink raises OSError for the leaves in fails (no
\* permission on the directory): the error is logged and the leaf stays.
ProcessCleanupBatchFailing(v, batch_files, fails) ==
  [loc \in Locs |->
     IF loc \in StaleIn(batch_files) /\ loc \notin fails THEN Absent ELSE v[loc]]

\* Lines 126-131: os.rmdir of every directory, bottom-up; it fails on a
\* directory that is not empty and on a link.
CleanDirs(v) ==
  [loc \in Locs |->
     IF /\ v[loc].kind = "dir"
        /\ \A q \in Locs : (loc \in Parents(q)) => v[q].kind \in {"none", "dir"}
       THEN Absent ELSE v[loc]]

(***************************************************************************)
(* Events: process_path posts to the connector (src/dedup.py 44-51, 74,    *)
(* 84, 113-130; src/connector.py 177-183).                                 *)
(***************************************************************************)
\* The payload's type: lines 74, 84 and 113 of src/dedup.py.
EventType(c, dup) ==
  IF c.kind = "audio" THEN (IF dup THEN "duplicate" ELSE "new") ELSE "unknown"

EventTypes == {"new", "duplicate", "unknown"}

\* Mutant: the handler calls _create_symlink whatever the type.
DedupProcessedFileWebhookAnyType(v, path, type) == CreateSymlink(v, path)

\* dedup_processed_file_webhook, as the value of the tree after the call.
DedupProcessedFileWebhook(v, path, type) ==
  IF type \in {"new", "unknown"} THEN CreateSymlink(v, path) ELSE v

\* A POST to /dedup_processed_file_webhook from any client, served once the
\* startup reconcile is over.
Webhook(path, type) ==
  /\ vpc = "done"
  /\ view' = DedupProcessedFileWebhook(view, path, type)
  /\ UNCHANGED <<vpc, vwalk, batch, vtodo, unlink_failed, restarted>>
  /\ UNCHANGED engineVars

\* Mutant: the exception of httpx.post is not caught in the loop; the posts
\* end with the first that fails.
RECURSIVE SendWebhookUncaught(_, _, _)
SendWebhookUncaught(urls, fails, i) ==
  IF i > Len(urls) THEN <<>>
  ELSE IF i \in fails THEN <<[url |-> urls[i], ok |-> FALSE]>>
  ELSE <<[url |-> urls[i], ok |-> TRUE]>> \o SendWebhookUncaught(urls, fails, i + 1)

\* Lines 44-51 of src/dedup.py: _send_webhook from the i-th url on, as the
\* list of the posts made.  fails: the positions whose httpx.post raises (no
\* server, a timeout); the exception is caught and logged, the loop goes on.
RECURSIVE SendWebhook(_, _, _)
SendWebhook(urls, fails, i) ==
  IF i > Len(urls) THEN <<>>
  ELSE IF i \in fails
    THEN <<[url |-> urls[i], ok |-> FALSE]>> \o SendWebhook(urls, fails, i + 1)
    ELSE <<[url |-> urls[i], ok |-> TRUE]>> \o SendWebhook(urls, fails, i + 1)

\* The tree after the connector has served the posts that reached it.
RECURSIVE Served(_, _, _, _)
Served(v, posts, path, type) ==
  IF posts = <<>> THEN v
  ELSE Served(IF Head(posts).ok /\ Head(posts).url = "connector"
                THEN DedupProcessedFileWebhook(v, path, type) ELSE v,
              Tail(posts), path, type)

\* _send_webhook, then the loop goes on.  A connector that is still in its
\* startup reconcile does not serve: a post to it fails.  One that runs
\* without --view-dir answers without touching a tree.
Notify(w) ==
  /\ pc[w] = "notify"
  /\ acts' = IF rerun[w] THEN acts + 1 ELSE acts
  /\ \E fails \in SUBSET (1..Len(webhook_urls)) :
       LET posts == SendWebhook(webhook_urls, fails, 1) IN
         /\ \A i \in 1..Len(posts) :
              (posts[i].ok /\ posts[i].url = "connector") => vpc \in {"off", "done"}
         /\ attempts' = [i \in 1..Len(posts) |-> posts[i].url]
         /\ view' = IF vpc = "done"
                      THEN Served(view, posts, Head(todo[w]),
                                  EventType(cur[w], existing[w]))
                      ELSE view
  /\ NextFile(w)
  /\ UNCHANGED <<storeVars, queueVars, treeVars, job, err, seen, rerun>>
  /\ UNCHANGED <<vpc, vwalk, batch, vtodo, unlink_failed, restarted>>
  /\ UNCHANGED <<schemaVars, webhook_urls>>

\* Line 161: lifespan starts _cleanup_stale_symlinks; os.walk lists the tree.
StartCleanup ==
  /\ vpc = "start"
  /\ vpc' = "walk"
  /\ vwalk' = WalkFiles(view)
  /\ batch' = <<>>
  /\ UNCHANGED <<view, vtodo, unlink_failed, restarted>>
  /\ UNCHANGED engineVars

\* Lines 106-119: the walk yields a file (bottom-up: the files of a directory
\* after those of its subdirectories); a full batch is processed.
WalkFile(loc) ==
  /\ vpc = "walk"
  /\ loc \in vwalk
  /\ \A q \in vwalk : Len(q) <= Len(loc)
  /\ vwalk' = vwalk \ {loc}
  /\ LET batch_files == Append(batch, loc) IN
       IF Len(batch_files) >= BatchSize
         THEN /\ view' = ProcessCleanupBatch(view, batch_files)
              /\ batch' = <<>>
         ELSE /\ batch' = batch_files
              /\ UNCHANGED view
  /\ UNCHANGED <<vpc, vtodo, unlink_failed, restarted>>
  /\ UNCHANGED engineVars

\* Lines 121-131: the remaining batch, then the empty directories; line 162
\* and 142: _ensure_valid_symlinks begins with the query on tracks.
EndWalk ==
  /\ vpc = "walk"
  /\ vwalk = {}
  /\ view' = CleanDirs(IF batch = <<>> THEN view ELSE ProcessCleanupBatch(view, batch))
  /\ batch' = <<>>
  /\ vpc' = "tracks"
  /\ vtodo' = TrackPaths
  /\ UNCHANGED <<vwalk, unlink_failed, restarted>>
  /\ UNCHANGED engineVars

\* WalkFile when the batch is full and some of its unlinks raise.
WalkFileFailing(loc, fails) ==
  /\ vpc = "walk"
  /\ loc \in vwalk
  /\ \A q \in vwalk : Len(q) <= Len(loc)
  /\ vwalk' = vwalk \ {loc}
  /\ LET batch_files == Append(batch, loc) IN
       /\ Len(batch_files) >= BatchSize
       /\ fails # {}
       /\ fails \subseteq StaleIn(batch_files)
       /\ view' = ProcessCleanupBatchFailing(view, batch_files, fails)
  /\ batch' = <<>>
  /\ unlink_failed' = unlink_failed \cup fails
  /\ UNCHANGED restarted
  /\ UNCHANGED <<vpc, vtodo>>
  /\ UNCHANGED engineVars

\* EndWalk when some unlinks of the remaining batch raise.
EndWalkFailing(fails) ==
  /\ vpc = "walk"
  /\ vwalk = {}
  /\ fails # {}
  /\ fails \subseteq StaleIn(batch)
  /\ view' = CleanDirs(ProcessCleanupBatchFailing(view, batch, fails))
  /\ batch' = <<>>
  /\ unlink_failed' = unlink_failed \cup fails
  /\ UNCHANGED restarted
  /\ vpc' = "tracks"
  /\ vtodo' = TrackPaths
  /\ UNCHANGED vwalk
  /\ UNCHANGED engineVars

\* Lines 142-147: the query yields a path (in the order the store picks),
\* _create_symlink is called on it.
EnsureSymlink(path) ==
  /\ vpc \in {"tracks", "unknown"}
  /\ path \in vtodo
  /\ vtodo' = vtodo \ {path}
  /\ view' = CreateSymlink(view, path)
  /\ UNCHANGED <<vpc, vwalk, batch, unlink_failed, restarted>>
  /\ UNCHANGED engineVars

\* The query on tracks is exhausted: the query on unknown files begins.
EndTracks ==
  /\ vpc = "tracks"
  /\ vtodo = {}
  /\ vpc' = "unknown"
  /\ vtodo' = UnknownPaths
  /\ UNCHANGED <<view, vwalk, batch, unlink_failed, restarted>>
  /\ UNCHANGED engineVars

\* Both queries are exhausted: the reconcile is over (line 164).
EndUnknown ==
  /\ vpc = "unknown"
  /\ vtodo = {}
  /\ vpc' = "done"
  /\ UNCHANGED <<view, vwalk, batch, vtodo, unlink_failed, restarted>>
  /\ UNCHANGED engineVars

\* The connector is stopped and started again: lifespan runs the full
\* reconcile a second time, the store being as it was.
Restart ==
  /\ vpc = "done"
  /\ ~restarted
  /\ restarted' = TRUE
  /\ vpc' = "start"
  /\ UNCHANGED <<view, vwalk, batch, vtodo, unlink_failed>>
  /\ UNCHANGED engineVars

Reconcile ==
  \/ StartCleanup
  \/ \E loc \in Locs : WalkFile(loc)
  \/ EndWalk
  \/ \E path \in ViewPaths : EnsureSymlink(path)
  \/ EndTracks
  \/ EndUnknown

(***************************************************************************)
(* Specifications                                                          *)
(***************************************************************************)
Engine(w) ==
  \/ Lookup(w)
  \/ Insert(w)
  \/ Notify(w)

\* Queue mode: the connector enqueues paths, NWorkers workers consume.  The
\* file tree is being written while the workers run (tgmount delivers the
\* files): each read of a file may find any of `contents`.
QueueNext(paths, contents) ==
  \/ \E path \in paths : Enqueue(path)
  \/ \E w \in Workers :
       \/ SelectJob(w)
       \/ ClaimJob(w)
       \/ Engine(w)
       \/ \E c \in contents : CheckFile(w, c)
       \/ CompleteJob(w)
       \/ FailJob(w)
       \/ Stop(w)

\* The whole system: jobs on the directory and on a file, files of any content.
Next == QueueNext(JobPaths, Contents)

Spec == Init /\ [][Next]_vars

\* The queue under contention: every job is the same one-file path, and the
\* file is not audio or a track (the job ends DONE) or corrupt (it ends FAILED).
OneFileContents ==
  { c \in Contents : c.kind \in {"nonaudio", "corrupt"} \/ c.tags = TagsFull }

NextQueue == QueueNext({FileC}, OneFileContents)

SpecQueue == Init /\ [][NextQueue]_vars

\* The queue over audio files only: every read finds a track, with or
\* without a MusicBrainz album id; no worker is stopped.
AudioContents == { c \in Contents : c.kind = "audio" }

\* Two workers race on the jobs, however many workers there are.
NextTracks ==
  \/ \E path \in JobPaths : Enqueue(path)
  \/ \E w \in {1, 2} :
       \/ SelectJob(w)
       \/ ClaimJob(w)
       \/ Engine(w)
       \/ \E c \in AudioContents : CheckFile(w, c)
       \/ CompleteJob(w)
       \/ FailJob(w)

SpecTracks == Init /\ [][NextTracks]_vars

\* The queue on a table that either program may have created: create_all of
\* src/server.py makes idx_path unique, and create_all leaves a table that
\* exists as it is.
InitEnqueue ==
  /\ InitWorkers
  /\ InitNoView
  /\ idx_path_unique \in BOOLEAN
  /\ refused = {}
  /\ InitNoHook
  /\ jobs = <<>>
  /\ won = <<>>
  /\ clock = 1
  /\ tracks = EmptyBag
  /\ unknown = EmptyBag
  /\ pc = [w \in Workers |-> "poll"]
  /\ content = [f \in Files |-> NoContent]
  /\ changes = 0

SpecEnqueue == InitEnqueue /\ [][QueueNext(JobPaths, OneFileContents)]_vars

\* Bulk mode: process_path is run again and again by one process at a time,
\* over a tree that changes at most MaxChanges times.
InitBulk ==
  /\ InitStore
  /\ InitWorkers
  /\ InitServing
  /\ InitOneHook
  /\ pc = [w \in Workers |-> "idle"]
  /\ content \in [Files -> Contents]
  /\ changes = 0

NextBulk ==
  \/ \E path \in JobPaths : BulkStart(1, path)
  \/ \E file \in Files : FileChange(file)
  \/ Engine(1)
  \/ pc[1] = "check" /\ CheckFile(1, content[Head(todo[1])])
  \/ BulkEnd(1)

SpecBulk == InitBulk /\ [][NextBulk]_vars

\* Queue mode with one worker and any list of --webhook-url of at most
\* MaxUrls urls, the connector's endpoint or another server's, in front of
\* a serving connector.
Urls == {"connector", "other"}

UrlLists == UNION { [1..n -> Urls] : n \in 0..MaxUrls }

InitHooks ==
  /\ InitStore
  /\ InitWorkers
  /\ InitServing
  /\ webhook_urls \in UrlLists
  /\ attempts = <<>>
  /\ pc = [w \in Workers |-> "poll"]
  /\ content = [f \in Files |-> NoContent]
  /\ changes = 0

NextHooks ==
  \/ \E path \in JobPaths : Enqueue(path)
  \/ SelectJob(1)
  \/ ClaimJob(1)
  \/ Engine(1)
  \/ \E c \in OneFileContents : CheckFile(1, c)
  \/ CompleteJob(1)
  \/ FailJob(1)

SpecHooks == InitHooks /\ [][NextHooks]_vars

\* The connector's startup with --view-dir: a full reconcile of a view tree
\* found in any state, against a store that holds any of ViewPaths.  The
\* store of a status assignment st: the row of FileB is a duplicate of the
\* row of FileDB, or differs from it in its tags.
ViewStores ==
  { st \in [ViewPaths -> {"absent", "track", "duplicate", "unknown"}] :
      /\ st[FileDB] # "duplicate"
      /\ st[FileC] \in {"absent", "unknown"}
      /\ st[FileAB] \in {"absent", "unknown"}
      /\ st[FileOut] \in {"absent", "unknown"}
      /\ (st[FileB] = "duplicate") => (st[FileDB] = "track") }

StoreTracks(st) ==
  { TrackRow(p, IF p = FileB /\ st[p] = "track" THEN TagsNoMbid ELSE TagsFull,
             st[p] = "duplicate") :
      p \in { q \in ViewPaths : st[q] \in {"track", "duplicate"} } }

\* A link found in the tree points where _create_symlink would point it, or
\* elsewhere.
ElsewhereTarget == <<"x">>

EntriesAt(loc) ==
  {Absent, RegularFile, Directory}
  \cup { Link(t, d) : t \in {LinkTarget(JoinUnder(db_prefix, loc)), ElsewhereTarget},
                      d \in BOOLEAN }

\* Only a directory has entries below it.
IsTree(v) ==
  \A loc \in Locs :
    (v[loc].kind # "none") => \A q \in Parents(loc) : v[q].kind = "dir"

\* The trees the reconcile may find: any entries at the four locations.
InitialTrees ==
  { v \in { (LocB :> eb) @@ (LocC :> ec) @@ (LocD :> ed) @@ (LocDB :> edb) :
              eb \in EntriesAt(LocB), ec \in EntriesAt(LocC),
              ed \in EntriesAt(LocD), edb \in EntriesAt(LocDB) } :
      IsTree(v) }

InitView ==
  /\ InitWorkers
  /\ InitSchema
  /\ InitOneHook
  /\ jobs = <<>>
  /\ won = <<>>
  /\ clock = 1
  /\ \E st \in ViewStores :
       /\ tracks = SetToBag(StoreTracks(st))
       /\ unknown = SetToBag({ p \in ViewPaths : st[p] = "unknown" })
  /\ pc = [w \in Workers |-> "poll"]
  /\ content = [f \in Files |-> NoContent]
  /\ changes = 0
  /\ view \in InitialTrees
  /\ vpc = "start"
  /\ vwalk = {}
  /\ batch = <<>>
  /\ vtodo = {}
  /\ unlink_failed = {}
  /\ restarted = FALSE

\* After the startup the connector serves events, whoever posts them.
NextView ==
  \/ Reconcile
  \/ \E path \in ViewPaths, type \in EventTypes : Webhook(path, type)

SpecView == InitView /\ [][NextView]_vars

\* The startup reconcile in a view directory where removals may fail.
NextFaults ==
  \/ Reconcile
  \/ \E loc \in Locs, fails \in SUBSET Locs : WalkFileFailing(loc, fails)
  \/ \E fails \in SUBSET Locs : EndWalkFailing(fails)

SpecFaults == InitView /\ [][NextFaults]_vars

\* A store path as a client posted it or as os.walk joined it under a job
\* path that pathlib would write otherwise ("/a//", "./a"): the same file as
\* /a/c, another string.
FileSlashC == <<"/", "a", "/", "/", "c">>

\* Two startups of the connector in a row over the same store, which may
\* hold such a path among its unknown files.
InitTwice ==
  /\ InitWorkers
  /\ InitSchema
  /\ InitOneHook
  /\ jobs = <<>>
  /\ won = <<>>
  /\ clock = 1
  /\ \E st \in ViewStores, extra \in SUBSET {FileSlashC} :
       /\ tracks = SetToBag(StoreTracks(st))
       /\ unknown = SetToBag({ p \in ViewPaths : st[p] = "unknown" } \cup extra)
  /\ pc = [w \in Workers |-> "poll"]
  /\ content = [f \in Files |-> NoContent]
  /\ changes = 0
  /\ view \in InitialTrees
  /\ vpc = "start"
  /\ vwalk = {}
  /\ batch = <<>>
  /\ vtodo = {}
  /\ unlink_failed = {}
  /\ restarted = FALSE

NextTwice ==
  \/ Reconcile
  \/ EnsureSymlink(FileSlashC)
  \/ Restart

SpecTwice == InitTwice /\ [][NextTwice]_vars

(***************************************************************************)
(* Properties                                                              *)
(***************************************************************************)
\* The workers that hold the claim on job j: past the conditional update,
\* in process_path or at the completion write, or stopped there.
Holders(j) == { w \in Workers : job[w] = j /\ pc[w] \notin {"poll", "selected"} }

\* C1 (claim exclusivity): of the workers that selected the same pending job,
\* exactly one gets an updated_count of 1 and goes on to process it: a job
\* has left PENDING exactly when one conditional update matched it, never
\* two, and no worker but that one is in process_path for it.
ClaimExclusive ==
  \A j \in JobIds :
    /\ won[j] <= 1
    /\ (jobs[j].status # PENDING) <=> (won[j] = 1)
    /\ Cardinality(Holders(j)) <= won[j]

\* Two workers selected the same job; one holds the claim, the conditional
\* update of the other returned 0 and it is polling again.
ClaimRaceSeen ==
  \E j \in JobIds : \E w1, w2 \in Workers :
    /\ w1 # w2
    /\ job[w1] = j /\ job[w2] = j
    /\ pc[w1] \in {"check", "lookup", "insert", "notify"}
    /\ pc[w2] = "poll"
    /\ jobs[j].status = PROCESSING

\* C2 (monotonic status): every step leaves a job's status as it is, or
\* moves it PENDING -> PROCESSING, or PROCESSING -> DONE or FAILED.
StatusStep(old, new) ==
  \/ new = old
  \/ old = PENDING /\ new = PROCESSING
  \/ old = PROCESSING /\ new \in {DONE, FAILED}

StatusMonotonic ==
  [][\A j \in JobIds : StatusStep(jobs[j].status, jobs'[j].status)]_vars

\* Both ends were reached: one job is DONE, another is FAILED, while a third
\* party (a worker) still holds a stale selection of one of them.
BothOutcomesSeen ==
  \E j, k \in JobIds :
    /\ jobs[j].status = DONE
    /\ jobs[k].status = FAILED
    /\ \E w \in Workers : pc[w] = "selected" /\ job[w] \in {j, k}

\* C9 (claim order): a job that has been claimed was created no later than
\* any job that is still pending.
ClaimOrder ==
  \A j, k \in JobIds :
    (jobs[j].status # PENDING /\ jobs[k].status = PENDING)
      => jobs[j].created_at <= jobs[k].created_at

\* A job was claimed while a younger one was pending.
ClaimedBeforeYounger ==
  \E j, k \in JobIds :
    /\ jobs[j].status = PROCESSING
    /\ jobs[k].status = PENDING
    /\ jobs[j].created_at < jobs[k].created_at
    /\ Holders(j) # {}

\* A job whose claimant stopped between the claim and the completion write.
Stuck(j) ==
  /\ jobs[j].status = PROCESSING
  /\ \E w \in Workers : job[w] = j /\ pc[w] \in {"stopped", "crashed"}

\* C10 (stuck job): once the claimant of a PROCESSING job has stopped, every
\* step leaves the job PROCESSING, and no worker's select returns it.
StuckStaysStuck ==
  [][\A j \in JobIds :
       Stuck(j) =>
         /\ jobs'[j].status = PROCESSING
         /\ \A w \in Workers :
              (pc[w] = "poll" /\ pc'[w] = "selected") => job'[w] # j]_vars

\* A job is stuck while another worker went on: it finished a younger job.
StuckSeen ==
  \E j, k \in JobIds :
    /\ Stuck(j)
    /\ jobs[k].status \in {DONE, FAILED}
    /\ k > j

\* The identity tuple of a tracks row.
Identity(t) ==
  <<t.acoustic_fingerprint, t.album, t.mb_albumid, t.disc_number, t.track_number>>

\* C3 (identity uniqueness): no two tracks rows with duplicate = false share
\* the identity tuple.
IdentityUnique ==
  \A t1, t2 \in BagToSet(tracks) :
    (~t1.duplicate /\ ~t2.duplicate /\ Identity(t1) = Identity(t2))
      => (t1 = t2 /\ CopiesIn(t1, tracks) = 1)

\* The number of rows of each table that carry a path.
TrackRowsOf(path) ==
  BagCardinality([t \in { r \in BagToSet(tracks) : r.path = path } |-> CopiesIn(t, tracks)])

UnknownRowsOf(path) == CopiesIn(path, unknown)

\* C4 (path uniqueness): no path has a row in both tables, nor two rows in one.
PathUnique ==
  \A path \in Files : TrackRowsOf(path) + UnknownRowsOf(path) <= 1

\* C7 (constraint race is not fatal): no violation of a unique-path index
\* leaves process_path; the worker that lost the race goes on with its files.
PathRaceNotFatal ==
  \A w \in Workers : err[w] # "path"

\* C8 (one bad file does not abort the scan): a failed read of one file does
\* not end process_path while files of the walk are still to be visited.
ScanGoesOn ==
  \A w \in Workers :
    (pc[w] = "raised" /\ err[w] \in {"tags", "fingerprint"}) => Len(todo[w]) <= 1

\* C5 (idempotence): a second process_path over a path, the tree under it
\* unchanged since the first began, inserts no row and sends no event.
SecondRunIdle == acts = 0

\* A second run over the directory has returned, with rows of both tables in
\* the store.
SecondRunSeen ==
  /\ rerun[1]
  /\ pc[1] = "return"
  /\ tracks # EmptyBag
  /\ unknown # EmptyBag

\* The store path whose link belongs at a location, if any: a non-duplicate
\* track path or an unknown-file path under db_prefix that maps to it.
ExpectedAt(loc) ==
  { p \in TrackPaths \cup UnknownPaths :
      IsRelativeTo(p, db_prefix) /\ RelativeTo(p, db_prefix) = loc }

\* The tree is the image of the store: at each location of a store path a
\* link with the expected target, at every other location nothing, or a
\* directory that leads to an entry.
ViewCorrect ==
  \A loc \in Locs :
    IF ExpectedAt(loc) # {}
      THEN \E p \in ExpectedAt(loc) :
             view[loc].kind = "link" /\ view[loc].target = LinkTarget(p)
      ELSE \/ view[loc].kind = "none"
           \/ /\ view[loc].kind = "dir"
              /\ \E q \in Locs : loc \in Parents(q) /\ view[q].kind # "none"

\* C6 (view correctness): after a full reconcile from any initial view tree
\* the leaves under view_dir are exactly the links of the non-duplicate track
\* paths and unknown-file paths under db_prefix, each at its relative
\* location with the expected target, and no other leaf remains.
ViewCorrectAfterReconcile ==
  (vpc = "done") => ViewCorrect

\* The same of the initial trees that hold no regular file (a regular file at
\* the location of a store path is kept: lines 67-69), read off the final
\* tree: the reconcile creates no regular file and removes no kept one.
ViewCorrectOfLinks ==
  (vpc = "done" /\ \A loc \in Locs : view[loc].kind # "file") => ViewCorrect

\* The record of the event that worker w is about to send: the row that
\* process_path built for the current file.
EventRecord(w) ==
  IF cur[w].kind = "audio"
    THEN TrackRow(Head(todo[w]), cur[w].tags, existing[w])
    ELSE Head(todo[w])

EventRecorded(w) ==
  IF cur[w].kind = "audio"
    THEN CopiesIn(EventRecord(w), tracks) >= 1
    ELSE CopiesIn(EventRecord(w), unknown) >= 1

\* C11 (commit before notify): whenever a worker is about to send an event,
\* the record of that event is in the store, and the step that follows (the
\* delivery, failed or not, or any other step) leaves that record there.
CommitBeforeNotify ==
  [][\A w \in Workers :
       pc[w] = "notify" =>
         /\ EventRecorded(w)
         /\ IF cur[w].kind = "audio"
              THEN CopiesIn(EventRecord(w), tracks') >= CopiesIn(EventRecord(w), tracks)
              ELSE CopiesIn(EventRecord(w), unknown') >= CopiesIn(EventRecord(w), unknown)]_vars

\* A run has returned after a delivery that failed and one that succeeded:
\* /a/b is recorded as a track and has no link, /a/c is recorded and has one.
FailedDeliverySeen ==
  /\ pc[1] = "return"
  /\ \E t \in BagToSet(tracks) : t.path = FileB /\ ~t.duplicate
  /\ view[LocB] = Absent
  /\ AlreadyIndexed(FileC)
  /\ view[LocC].kind = "link"

\* C12 (completion stamps the job): the write that marks a claimed job DONE
\* or FAILED also sets its updated_at to the store's time of that write.
CompletionStamped ==
  [][\A j \in JobIds :
       (jobs[j].status = PROCESSING /\ jobs'[j].status \in {DONE, FAILED})
         => jobs'[j].updated_at = clock']_vars

EveryEnqueueCreates == refused = {}

\* C15 (a claimed job ends): a job is PROCESSING only while its claimant is
\* in process_path or at the write of DONE (it returned) or FAILED (it
\* raised), unless the claimant was stopped from outside; no raise of
\* process_path ends the worker with the job left PROCESSING.
ClaimedJobEnds ==
  \A j \in JobIds :
    (jobs[j].status = PROCESSING) => \E w \in Holders(j) : pc[w] # "crashed"

\* C16 (metadata failure degrades): a file that is audio by its magic bytes
\* and whose tags MediaFile cannot read is not recorded as an unknown file
\* (its event tells of a track), and the failure does not leave process_path.
MetadataFailureDegrades ==
  \A w \in Workers :
    /\ err[w] # "tags"
    /\ (pc[w] = "notify" /\ cur[w].kind = "filetype")
         => /\ TrackPathTaken(Head(todo[w]))
            /\ ~UnknownPathTaken(Head(todo[w]))

\* The location of a file of the tree in the view.
LocOf(file) == RelativeTo(file, db_prefix)

\* C17 (fingerprint failure leaves the file unrecorded): over a tree that has
\* not changed, a file whose fingerprint cannot be taken has no row in
\* either table and no event of it has reached the connector, whatever runs
\* of process_path have passed over it.
FingerprintFailureUnrecorded ==
  (changes = 0) =>
    \A f \in Files :
      (content[f].kind = "corrupt") =>
        /\ ~AlreadyIndexed(f)
        /\ view[LocOf(f)] = Absent

\* A second run over the unchanged directory has attempted the file again:
\* the fingerprint of /a/c failed once more, after /a/b was skipped.
FingerprintRetrySeen ==
  /\ changes = 0
  /\ rerun[1]
  /\ pc[1] = "raised"
  /\ err[1] = "fingerprint"
  /\ todo[1] = <<FileC>>
  /\ AlreadyIndexed(FileB)

\* The store paths whose link location holds a regular file.
PathsAtRegularFile ==
  { p \in ViewPaths :
      /\ IsRelativeTo(p, db_prefix)
      /\ LocOf(p) \in Locs
      /\ view[LocOf(p)] = RegularFile }

\* C18 (a real file is never overwritten): when the link location of a path
\* holds a regular file, the step of the creation pass that takes the path
\* out of the query leaves the whole tree as it is, an event of any type
\* for the path would leave the whole tree as it is, and no event served
\* for any path touches the file.
RealFileNeverOverwritten ==
  [][\A p \in PathsAtRegularFile :
       /\ (p \in vtodo /\ p \notin vtodo') => (view' = view)
       /\ \A type \in EventTypes : DedupProcessedFileWebhook(view, p, type) = view
       /\ (vpc = "done") => (view'[LocOf(p)] = RegularFile)]_vars

\* The creation pass has gone over /a/b, a path of the store whose location
\* holds a regular file, and made the link of another path: the file is
\* still there.
RealFileSkippedSeen ==
  /\ vpc = "unknown"
  /\ FileB \in TrackPaths
  /\ view[LocB] = RegularFile
  /\ view[LocC].kind = "link"
  /\ vtodo = {}

\* The target the link at loc is to have, written out: "../" once for each
\* directory above the link, then source_relative_path, "/" and rel.
TargetB == <<"s", "/", "b">>
TargetC == <<"s", "/", "c">>
TargetDB == <<".", ".", "/", "s", "/", "d", "/", "b">>
TargetAt(loc) ==
  IF loc = LocB THEN TargetB ELSE IF loc = LocC THEN TargetC ELSE TargetDB

\* The store paths whose link location holds a link that points elsewhere.
PathsAtOtherLink ==
  { p \in {FileB, FileC, FileDB} :
      /\ view[LocOf(p)].kind = "link"
      /\ view[LocOf(p)].target # TargetAt(LocOf(p)) }

\* C19 (target computation), for a source_relative_path that is relative as
\* its option asks: every link that a step of the connector creates or
\* changes has the target "../" * depth + source_relative_path + "/" + rel,
\* which is not absolute; and a link with another target, when the creation
\* pass or an event of type new or unknown comes to its path, is replaced by
\* a link with this target.
TargetComputed ==
  [][/\ \A loc \in Locs :
          (view'[loc].kind = "link" /\ view'[loc] # view[loc]) =>
            /\ view'[loc].target = TargetAt(loc)
            /\ Head(view'[loc].target) # "/"
     /\ \A p \in PathsAtOtherLink :
          /\ (p \in vtodo /\ p \notin vtodo') =>
               (view'[LocOf(p)] = Link(TargetAt(LocOf(p)), FALSE))
          /\ \A type \in {"new", "unknown"} :
               DedupProcessedFileWebhook(view, p, type)[LocOf(p)]
                 = Link(TargetAt(LocOf(p)), FALSE)]_vars

\* The creation pass has gone over /a/d/b and /a/b: the link one directory
\* down points one directory up, the link at the top does not, and the link
\* of /a/c, not yet reached, still points elsewhere.
TargetRepairedSeen ==
  /\ vpc = "tracks"
  /\ vtodo = {}
  /\ {FileB, FileDB} \subseteq TrackPaths
  /\ FileC \in UnknownPaths
  /\ view[LocDB] = Link(TargetDB, FALSE)
  /\ view[LocB] = Link(TargetB, FALSE)
  /\ view[LocC] = Link(ElsewhereTarget, FALSE)

\* The type of the event that process_path sends for a row of tracks.
TypeOfTrack(t) == IF t.duplicate THEN "duplicate" ELSE "new"

\* C20 (single-path events): once the connector serves, an event of type
\* new or unknown leaves the tree that the creation pass's step for the same
\* path would leave, an event of type duplicate leaves the tree as it is,
\* the event of a duplicate track makes no link at the location of its
\* path, and every step that changes the tree is the creation step of one
\* path.
EventAppliesCreation ==
  [][(vpc = "done") =>
       /\ \A p \in ViewPaths :
            /\ \A type \in {"new", "unknown"} :
                 DedupProcessedFileWebhook(view, p, type) = CreateSymlink(view, p)
            /\ DedupProcessedFileWebhook(view, p, "duplicate") = view
       /\ \A t \in BagToSet(tracks) :
            (t.duplicate /\ IsRelativeTo(t.path, db_prefix)) =>
              DedupProcessedFileWebhook(view, t.path, TypeOfTrack(t))[LocOf(t.path)]
                = view[LocOf(t.path)]
       /\ (view' # view) =>
            \E p \in ViewPaths : view' = CreateSymlink(view, p)]_vars

\* The connector serves; an event of type new or unknown has made the link
\* of /a/c, a path the store does not hold (the full reconcile leaves no
\* such link), and /a/b, a duplicate track, has no link.
EventLinkSeen ==
  /\ vpc = "done"
  /\ ~AlreadyIndexed(FileC)
  /\ view[LocC] = Link(TargetC, FALSE)
  /\ \E t \in BagToSet(tracks) : t.path = FileB /\ t.duplicate
  /\ view[LocB] = Absent

\* The same of the events that the engine itself sends, the connector
\* serving over an empty view: no duplicate track has a link.
NoLinkForDuplicate ==
  \A t \in BagToSet(tracks) : t.duplicate => (view[LocOf(t.path)] = Absent)

\* C21 (a failure on one path does not abort the rest): when the reconcile
\* is over, every stale leaf still in the tree is one whose own removal
\* failed, and every store path under the prefix has its link unless its
\* own creation was skipped (a file or directory at the location) or failed
\* (a file or a link above the location), whatever failed on other paths.
ReconcileGoesOn ==
  (vpc = "done") =>
    /\ \A loc \in WalkFiles(view) :
         (JoinUnder(db_prefix, loc) \notin (TrackPaths \cup UnknownPaths)) =>
           (loc \in unlink_failed)
    /\ \A p \in TrackPaths \cup UnknownPaths :
         (IsRelativeTo(p, db_prefix) /\ LocOf(p) \in Locs) =>
           \/ view[LocOf(p)].kind = "link" /\ view[LocOf(p)].target = LinkTarget(p)
           \/ view[LocOf(p)].kind \in {"file", "dir"}
           \/ \E q \in Parents(LocOf(p)) : view[q].kind \in {"file", "link"}

\* The removal of the stale file at d failed and with it the creation of the
\* link of /a/d/b below it; the stale leaf at c is gone all the same and
\* the link of /a/b was made.
FailuresPassedSeen ==
  /\ vpc = "done"
  /\ unlink_failed = {LocD}
  /\ view[LocD] = RegularFile
  /\ FileDB \in TrackPaths
  /\ ~AlreadyIndexed(FileC)
  /\ view[LocC] = Absent
  /\ FileB \in TrackPaths
  /\ view[LocB] = Link(TargetB, FALSE)

\* C22 (notification failures are isolated): whatever the list of urls and
\* whichever of the posts fail, the step that sends the event of a file has
\* posted once to every url of the list, in order, and process_path goes on
\* to the next file or returns as it does when every post succeeds: nothing
\* is raised, and neither the queue nor the store is touched.
NotifyIsolated ==
  [][\A w \in Workers :
       (pc[w] = "notify" /\ pc'[w] # "notify") =>
         /\ attempts' = webhook_urls
         /\ pc'[w] = (IF Len(todo[w]) > 1 THEN "check" ELSE "return")
         /\ todo'[w] = Tail(todo[w])
         /\ err' = err
         /\ jobs' = jobs
         /\ tracks' = tracks
         /\ unknown' = unknown]_vars

\* The job of /a/c is DONE and its file recorded; the event was posted to
\* the connector and to the other server, and the post to the connector
\* failed: the view has no link of /a/c.
FailedPostJobDoneSeen ==
  /\ webhook_urls = <<"connector", "other">>
  /\ attempts = webhook_urls
  /\ Len(jobs) >= 1
  /\ jobs[1].path = FileC
  /\ jobs[1].status = DONE
  /\ AlreadyIndexed(FileC)
  /\ view[LocC] = Absent

\* The tags of a row of tracks, as the lookup is given them.
TagsOf(t) ==
  [acoustic_fingerprint |-> t.acoustic_fingerprint, album |-> t.album,
   mb_albumid |-> t.mb_albumid, disc_number |-> t.disc_number,
   track_number |-> t.track_number]

\* C23 (every duplicate has an original): every row of tracks with
\* duplicate = true has the five columns of some row with duplicate = false,
\* and so for any tags the lookup, which has no criterion on duplicate,
\* finds a row exactly when it would among the rows with duplicate = false.
DuplicateHasOriginal ==
  /\ \A t \in BagToSet(tracks) :
       t.duplicate =>
         \E o \in BagToSet(tracks) : ~o.duplicate /\ TagsOf(o) = TagsOf(t)
  /\ \A tags \in {TagsFull, TagsNoMbid, NoTags} :
       (\E t \in BagToSet(tracks) : SameTrack(t, tags))
         <=> (\E o \in BagToSet(tracks) : ~o.duplicate /\ SameTrack(o, tags))

\* /a/c is recorded as the duplicate of /a/b, both without a MusicBrainz
\* album id: the lookup matched the NULL column.
DuplicateOfNullSeen ==
  /\ TrackRow(FileB, TagsNoMbid, FALSE) \in BagToSet(tracks)
  /\ TrackRow(FileC, TagsNoMbid, TRUE) \in BagToSet(tracks)

\* The files that process_path enumerates under the path of job j.
FilesOf(j) == { Walk(jobs[j].path)[i] : i \in 1..Len(Walk(jobs[j].path)) }

\* C24 (Done means scanned to the end): every file enumerated under the
\* path of a DONE job has a row in tracks or in unknown_files, and a job is
\* marked DONE only by a worker whose process_path has returned from the
\* last enumerated file, never by one whose process_path raised.
DoneMeansScanned ==
  [][\A j \in JobIds :
       /\ (jobs[j].status = DONE) => \A f \in FilesOf(j) : AlreadyIndexed(f)
       /\ (jobs[j].status # DONE /\ jobs'[j].status = DONE) =>
            /\ \A f \in FilesOf(j) : AlreadyIndexed(f)
            /\ \E w \in Workers :
                 job[w] = j /\ pc[w] = "return" /\ todo[w] = <<>>]_vars

\* The job of the directory is DONE with both files recorded, one as a
\* track and one as an unknown file, and a second job of the directory
\* FAILED where its scan stopped.
DoneAndFailedSeen ==
  /\ Len(jobs) = 2
  /\ jobs[1].path = DirA
  /\ jobs[1].status = FAILED
  /\ jobs[2].path = DirA
  /\ jobs[2].status = DONE
  /\ TrackPathTaken(FileB)
  /\ UnknownPathTaken(FileC)

\* C25 (the full reconcile is idempotent): in a second full reconcile run
\* right after the first over the same store, no step changes the tree: the
\* stale-removal pass removes no leaf and the creation pass creates or
\* retargets no link.
SecondReconcileIdle ==
  [][restarted => (view' = view)]_vars

====
